---- MODULE Spec2Model ----
(***************************************************************************)
(* A model of bot.py: the expression evaluator safe_eval (ast.parse        *)
(* followed by the whitelisting tree walk _eval over ALLOWED_OPERATORS)    *)
(* and the two message handlers registered in main.                        *)
(*                                                                         *)
(* Strings are sequences of one-character strings.  ast.parse is modelled  *)
(* as CPython's tokenizer and expression grammar restricted to the         *)
(* characters of Chars; ast.Num is the CPython 3.8 - 3.13 alias of         *)
(* ast.Constant whose isinstance check accepts int, float and complex      *)
(* constants and refuses bool and every other constant.                    *)
(***************************************************************************)
EXTENDS Integers, Sequences, FiniteSets, TLC

\* ------------------------------------------------------------------------
\* Bounds of the model
\* ------------------------------------------------------------------------

\* Longest exhaustively enumerated input string, in characters.
MaxLen == 3

\* Largest numerator or denominator the model computes with; an evaluation
\* that leaves this range is outside the model (Python integers are
\* unbounded, the model checker's are 32 bit).
MaxMagnitude == 4096

\* Most inbound updates the dispatcher model receives in one run.
MaxUpdates == 2

\* ------------------------------------------------------------------------
\* Characters and tokens (ast.parse, first half: the tokenizer)
\* ------------------------------------------------------------------------

Digits == {"0", "1", "2", "3", "4", "5", "6", "7", "8", "9"}

DigitVal(c) ==
    CASE c = "0" -> 0 [] c = "1" -> 1 [] c = "2" -> 2 [] c = "3" -> 3
      [] c = "4" -> 4 [] c = "5" -> 5 [] c = "6" -> 6 [] c = "7" -> 7
      [] c = "8" -> 8 [] c = "9" -> 9

\* Identifier characters of the modelled alphabet.  No Python keyword can be
\* spelled with them; "x" after "0" starts a hexadecimal literal and "j"
\* after digits makes an imaginary literal.
Letters == {"x", "j"}

Punctuation == {"+", "-", "%", "^", "(", ")"}

\* Every character the tokenizer model is defined on.
Chars == Digits \cup Letters \cup Punctuation \cup {"*", "/", " ", "'"}

Tok(k, v) == [k |-> k, v |-> v]

RECURSIVE DigitRunEnd(_, _)
DigitRunEnd(s, i) ==
    IF i <= Len(s) /\ s[i] \in Digits THEN DigitRunEnd(s, i + 1) ELSE i

RECURSIVE NameEnd(_, _)
NameEnd(s, i) ==
    IF i <= Len(s) /\ s[i] \in (Letters \cup Digits) THEN NameEnd(s, i + 1) ELSE i

\* Value of the digits s[i .. e-1] in the given base, saturating above
\* MaxMagnitude.
RECURSIVE NumVal(_, _, _, _, _)
NumVal(s, i, e, base, acc) ==
    IF i >= e THEN acc
    ELSE NumVal(s, i + 1, e, base,
                IF acc > MaxMagnitude THEN acc ELSE acc * base + DigitVal(s[i]))

\* First index k >= i with s[k] = "'", or 0.
RECURSIVE QuoteAt(_, _)
QuoteAt(s, i) ==
    IF i > Len(s) THEN 0
    ELSE IF s[i] = "'" THEN i ELSE QuoteAt(s, i + 1)

\* First index k >= i where three quotes start, or 0.
RECURSIVE TripleQuoteAt(_, _)
TripleQuoteAt(s, i) ==
    IF i + 2 > Len(s) THEN 0
    ELSE IF s[i] = "'" /\ s[i + 1] = "'" /\ s[i + 2] = "'" THEN i
    ELSE TripleQuoteAt(s, i + 1)

\* The tokens of s from position i on; an ERR token ends the sequence where
\* the tokenizer raises SyntaxError.
RECURSIVE Lex(_, _)
Lex(s, i) ==
    IF i > Len(s) THEN << >>
    ELSE LET c == s[i]
             nxt == IF i + 1 <= Len(s) THEN s[i + 1] ELSE ""
         IN
         CASE c = " " -> Lex(s, i + 1)
           [] c \in Digits ->
                IF c = "0" /\ nxt = "x" /\ DigitRunEnd(s, i + 2) > i + 2
                THEN LET e == DigitRunEnd(s, i + 2)
                     IN <<Tok("NUM", NumVal(s, i + 2, e, 16, 0))>> \o Lex(s, e)
                ELSE LET e == DigitRunEnd(s, i)
                         v == NumVal(s, i, e, 10, 0)
                     IN IF e <= Len(s) /\ s[e] = "j"
                        THEN <<Tok("IMAG", v)>> \o Lex(s, e + 1)
                        ELSE IF c = "0" /\ v # 0
                        THEN <<Tok("ERR", 0)>>
                        ELSE <<Tok("NUM", v)>> \o Lex(s, e)
           [] c \in Letters -> <<Tok("NAME", 0)>> \o Lex(s, NameEnd(s, i))
           [] c = "'" ->
                IF TripleQuoteAt(s, i) = i
                THEN LET k == TripleQuoteAt(s, i + 3)
                     IN IF k = 0 THEN <<Tok("ERR", 0)>>
                        ELSE <<Tok("STR", 0)>> \o Lex(s, k + 3)
                ELSE LET k == QuoteAt(s, i + 1)
                     IN IF k = 0 THEN <<Tok("ERR", 0)>>
                        ELSE <<Tok("STR", 0)>> \o Lex(s, k + 1)
           [] c = "*" -> IF nxt = "*" THEN <<Tok("**", 0)>> \o Lex(s, i + 2)
                         ELSE <<Tok("*", 0)>> \o Lex(s, i + 1)
           [] c = "/" -> IF nxt = "/" THEN <<Tok("//", 0)>> \o Lex(s, i + 2)
                         ELSE <<Tok("/", 0)>> \o Lex(s, i + 1)
           [] c \in Punctuation -> <<Tok(c, 0)>> \o Lex(s, i + 1)
           [] OTHER -> <<Tok("ERR", 0)>>

\* ------------------------------------------------------------------------
\* Values: Python int, float and complex numbers (and str constants)
\* ------------------------------------------------------------------------

\* A value is [t, re, im]: re and im are fractions <<n, d>> in lowest terms
\* with d > 0.  A float is a fraction whose denominator is a power of two.
IntV(n) == [t |-> "int", re |-> <<n, 1>>, im |-> <<0, 1>>]
ImagV(n) == [t |-> "complex", re |-> <<0, 1>>, im |-> <<n, 1>>]
StrV == [t |-> "str", re |-> <<0, 1>>, im |-> <<0, 1>>]

Abs(n) == IF n < 0 THEN -n ELSE n

RECURSIVE GCD(_, _)
GCD(a, b) == IF b = 0 THEN a ELSE GCD(b, a % b)

RECURSIVE IsPow2(_)
IsPow2(d) == d = 1 \/ (d > 1 /\ d % 2 = 0 /\ IsPow2(d \div 2))

\* The marker of a fraction outside the model's range; it propagates through
\* every operation.
Bad == <<0, 0>>
IsBad(q) == q[2] = 0

QFix(n, d) ==
    LET s == IF d < 0 THEN -1 ELSE 1
        g == GCD(Abs(n), Abs(d))
        r == <<(s * n) \div g, (s * d) \div g>>
    IN IF Abs(r[1]) > MaxMagnitude \/ r[2] > MaxMagnitude THEN Bad ELSE r

QNeg(a) == IF IsBad(a) THEN Bad ELSE <<-a[1], a[2]>>
QAdd(a, b) == IF IsBad(a) \/ IsBad(b) THEN Bad
              ELSE QFix(a[1] * b[2] + b[1] * a[2], a[2] * b[2])
QSub(a, b) == QAdd(a, QNeg(b))
QMul(a, b) == IF IsBad(a) \/ IsBad(b) THEN Bad ELSE QFix(a[1] * b[1], a[2] * b[2])
\* b is not zero
QDiv(a, b) == IF IsBad(a) \/ IsBad(b) THEN Bad ELSE QFix(a[1] * b[2], a[2] * b[1])
QFloor(a) == IF IsBad(a) THEN Bad ELSE <<a[1] \div a[2], 1>>
QZero(a) == a[1] = 0 /\ a[2] # 0
QIsInt(a) == a[2] = 1

\* The outcome of one arithmetic operation: a value, a raised exception, or
\* "unmodelled" when the exact result leaves the model (out of range, or a
\* float that a binary double can only approximate).
Ok(v) == [st |-> "ok", exc |-> "", val |-> v]
Raise(e) == [st |-> "raise", exc |-> e, val |-> IntV(0)]
Unmodelled == [st |-> "unmodelled", exc |-> "", val |-> IntV(0)]

Mk(t, re, im) ==
    IF IsBad(re) \/ IsBad(im) THEN Unmodelled
    ELSE IF t # "int" /\ ~(IsPow2(re[2]) /\ IsPow2(im[2])) THEN Unmodelled
    ELSE Ok([t |-> t, re |-> re, im |-> im])

\* The type of a binary operation's result under Python's numeric coercion.
Coerce(a, b) ==
    IF a.t = "complex" \/ b.t = "complex" THEN "complex"
    ELSE IF a.t = "float" \/ b.t = "float" THEN "float"
    ELSE "int"

IsZero(a) == QZero(a.re) /\ QZero(a.im)


\* ------------------------------------------------------------------------
\* Syntax trees (ast.parse, second half: the expression grammar)
\* ------------------------------------------------------------------------

Node(type, op, val, kids) == [type |-> type, op |-> op, val |-> val, kids |-> kids]

Constant(v) == Node("Constant", "", v, << >>)
BinOp(op, l, r) == Node("BinOp", op, IntV(0), <<l, r>>)
UnaryOp(op, x) == Node("UnaryOp", op, IntV(0), <<x>>)
Other(type, kids) == Node(type, "", IntV(0), kids)

ParseFail == [ok |-> FALSE, node |-> Other("None", << >>), pos |-> 0]
Parsed(node, pos) == [ok |-> TRUE, node |-> node, pos |-> pos]

Kind(t, p) == IF p >= 1 /\ p <= Len(t) THEN t[p].k ELSE "EOF"

BinOpName(k) ==
    CASE k = "+" -> "Add" [] k = "-" -> "Sub" [] k = "*" -> "Mult"
      [] k = "/" -> "Div" [] k = "%" -> "Mod" [] k = "**" -> "Pow"
      [] k = "//" -> "FloorDiv" [] k = "^" -> "BitXor"

UnaryOpName(k) == CASE k = "-" -> "USub" [] k = "+" -> "UAdd"

RECURSIVE StrRunEnd(_, _)
StrRunEnd(t, p) == IF Kind(t, p) = "STR" THEN StrRunEnd(t, p + 1) ELSE p

\* The levels of the expression grammar, loosest binding first, and the
\* binary operators of each left-associative level:
\*   xor:  sum ('^' sum)*            (no '&', '<<' or '>>' in Chars)
\*   sum:  term (('+' | '-') term)*
\*   term: factor (('*' | '/' | '//' | '%') factor)*
\* A grammar that puts '%' on the level of '+' and '-'.
OperatorsAt_ModuloWithSum(level) ==
    CASE level = "xor" -> {"^"}
      [] level = "sum" -> {"+", "-", "%"}
      [] level = "term" -> {"*", "/", "//"}

Tighter(level) ==
    CASE level = "xor" -> "sum" [] level = "sum" -> "term" [] level = "term" -> "factor"

OperatorsAt(level) ==
    CASE level = "xor" -> {"^"}
      [] level = "sum" -> {"+", "-"}
      [] level = "term" -> {"*", "/", "//", "%"}

RECURSIVE Parse(_, _, _)
RECURSIVE Rest(_, _, _, _)

\* The expression of the given level that starts at token p.
Parse(t, p, level) ==
    LET k == Kind(t, p) IN
    CASE level = "atom" ->
           \* atom: NUMBER | NAME | STRING+ | '(' [expression] ')'
           CASE k = "NUM" -> Parsed(Constant(IntV(t[p].v)), p + 1)
             [] k = "IMAG" -> Parsed(Constant(ImagV(t[p].v)), p + 1)
             [] k = "STR" -> Parsed(Constant(StrV), StrRunEnd(t, p))
             [] k = "NAME" -> Parsed(Other("Name", << >>), p + 1)
             [] k = "(" ->
                  IF Kind(t, p + 1) = ")" THEN Parsed(Other("Tuple", << >>), p + 2)
                  ELSE LET r == Parse(t, p + 1, "xor")
                       IN IF r.ok /\ Kind(t, r.pos) = ")" THEN Parsed(r.node, r.pos + 1)
                          ELSE ParseFail
             [] OTHER -> ParseFail
      [] level = "primary" ->
           \* primary: atom ( '(' [argument] ')' )*
           LET a == Parse(t, p, "atom")
           IN IF a.ok THEN Rest(t, a.node, a.pos, "primary") ELSE ParseFail
      [] level = "power" ->
           \* power: primary ['**' factor]
           LET l == Parse(t, p, "primary") IN
           IF l.ok /\ Kind(t, l.pos) = "**"
           THEN LET r == Parse(t, l.pos + 1, "factor")
                IN IF r.ok THEN Parsed(BinOp("Pow", l.node, r.node), r.pos)
                   ELSE ParseFail
           ELSE l
      [] level = "factor" ->
           \* factor: ('+' | '-') factor | power
           IF k \in {"+", "-"}
           THEN LET r == Parse(t, p + 1, "factor")
                IN IF r.ok THEN Parsed(UnaryOp(UnaryOpName(k), r.node), r.pos)
                   ELSE ParseFail
           ELSE Parse(t, p, "power")
      [] OTHER ->
           LET l == Parse(t, p, Tighter(level))
           IN IF l.ok THEN Rest(t, l.node, l.pos, level) ELSE ParseFail

\* What follows a parsed operand at token p: the call trailers of a primary
\* (argument: expression | '*' expression | '**' expression), or the further
\* operators and operands of a left-associative level.
Rest(t, left, p, level) ==
    IF level = "primary"
    THEN IF Kind(t, p) # "(" THEN Parsed(left, p)
         ELSE IF Kind(t, p + 1) = ")"
         THEN Rest(t, Other("Call", <<left>>), p + 2, level)
         ELSE LET star == Kind(t, p + 1) \in {"*", "**"}
                  r == Parse(t, IF star THEN p + 2 ELSE p + 1, "xor")
                  arg == IF star THEN Other("Starred", <<r.node>>) ELSE r.node
              IN IF r.ok /\ Kind(t, r.pos) = ")"
                 THEN Rest(t, Other("Call", <<left, arg>>), r.pos + 1, level)
                 ELSE ParseFail
    ELSE IF Kind(t, p) \in OperatorsAt(level)
    THEN LET r == Parse(t, p + 1, Tighter(level))
         IN IF r.ok THEN Rest(t, BinOp(BinOpName(t[p].k), left, r.node), r.pos, level)
            ELSE ParseFail
    ELSE Parsed(left, p)

HasErr(t) == \E p \in 1..Len(t) : t[p].k = "ERR"

\* ast.parse(expr, mode="eval"): an Expression node over the body, or
\* SyntaxError (ok = FALSE).  Leading whitespace is an IndentationError.
ast_parse(s) ==
    IF s = << >> \/ s[1] = " " THEN ParseFail
    ELSE LET t == Lex(s, 1) IN
         IF t = << >> \/ HasErr(t) THEN ParseFail
         ELSE LET r == Parse(t, 1, "xor")
              IN IF r.ok /\ r.pos = Len(t) + 1
                 THEN Parsed(Other("Expression", <<r.node>>), r.pos)
                 ELSE ParseFail

\* ------------------------------------------------------------------------
\* The operator module's functions on Python numbers
\* ------------------------------------------------------------------------

operator_add(a, b) == Mk(Coerce(a, b), QAdd(a.re, b.re), QAdd(a.im, b.im))

operator_sub(a, b) == Mk(Coerce(a, b), QSub(a.re, b.re), QSub(a.im, b.im))

operator_mul(a, b) ==
    Mk(Coerce(a, b),
       QSub(QMul(a.re, b.re), QMul(a.im, b.im)),
       QAdd(QMul(a.re, b.im), QMul(a.im, b.re)))

operator_neg(a) == Mk(a.t, QNeg(a.re), QNeg(a.im))

\* a / b.  A complex quotient is computed by Smith's method, which is exact
\* when one component of the divisor is zero; other complex divisors are
\* outside the model.
operator_truediv(a, b) ==
    IF IsZero(b) THEN Raise("ZeroDivisionError")
    ELSE IF Coerce(a, b) = "complex"
    THEN IF QZero(b.im) THEN Mk("complex", QDiv(a.re, b.re), QDiv(a.im, b.re))
         ELSE IF QZero(b.re)
         THEN Mk("complex", QDiv(a.im, b.im), QNeg(QDiv(a.re, b.im)))
         ELSE Unmodelled
    ELSE Mk("float", QDiv(a.re, b.re), <<0, 1>>)

operator_floordiv(a, b) ==
    IF Coerce(a, b) = "complex" THEN Raise("TypeError")
    ELSE IF IsZero(b) THEN Raise("ZeroDivisionError")
    ELSE Mk(Coerce(a, b), QFloor(QDiv(a.re, b.re)), <<0, 1>>)

operator_mod(a, b) ==
    IF Coerce(a, b) = "complex" THEN Raise("TypeError")
    ELSE IF IsZero(b) THEN Raise("ZeroDivisionError")
    ELSE Mk(Coerce(a, b),
            QSub(a.re, QMul(b.re, QFloor(QDiv(a.re, b.re)))), <<0, 1>>)

\* a ** n for a natural number n, by repeated multiplication.
RECURSIVE PowNat(_, _, _)
PowNat(a, n, acc) ==
    IF n = 0 \/ acc.st # "ok" THEN acc
    ELSE PowNat(a, n - 1, operator_mul(acc.val, a))

One(t) == [t |-> t, re |-> <<1, 1>>, im |-> <<0, 1>>]
AsType(a, t) == [a EXCEPT !.t = t]

\* a ** b.  int ** negative int is computed in floats; a complex power with
\* a small integral exponent is computed by multiplication (c_powi), and
\* every power with a non-integral exponent is outside the model.
operator_pow(a, b) ==
    LET t == Coerce(a, b)
        n == b.re[1]
        integral == QZero(b.im) /\ QIsInt(b.re)
    IN
    IF ~integral \/ (t = "complex" /\ Abs(n) > 100) THEN Unmodelled
    ELSE IF t = "int" /\ n >= 0 THEN PowNat(a, n, Ok(One("int")))
    ELSE LET rt == IF t = "int" THEN "float" ELSE t
             p == PowNat(AsType(a, rt), Abs(n), Ok(One(rt)))
         IN IF n >= 0 THEN p
            ELSE IF IsZero(a) THEN Raise("ZeroDivisionError")
            ELSE IF p.st # "ok" THEN p
            ELSE operator_truediv(One(rt), p.val)

\* ------------------------------------------------------------------------
\* Safe math evaluation
\* ------------------------------------------------------------------------

\* A table that takes '^' for the power operator as well.
ALLOWED_OPERATORS_CaretIsPower ==
    [Add |-> "add", Sub |-> "sub", Mult |-> "mul", Div |-> "truediv",
     Pow |-> "pow", USub |-> "neg", Mod |-> "mod", FloorDiv |-> "floordiv",
     BitXor |-> "pow"]

\* A table with the functions of '/' and '//' exchanged.
ALLOWED_OPERATORS_DivisionsSwapped ==
    [Add |-> "add", Sub |-> "sub", Mult |-> "mul", Div |-> "floordiv",
     Pow |-> "pow", USub |-> "neg", Mod |-> "mod", FloorDiv |-> "truediv"]

ALLOWED_OPERATORS ==
    [Add |-> "add", Sub |-> "sub", Mult |-> "mul", Div |-> "truediv",
     Pow |-> "pow", USub |-> "neg", Mod |-> "mod", FloorDiv |-> "floordiv"]

\* Calling the function object fn with the argument tuple args.
Invoke(fn, args) ==
    CASE fn = "add" -> operator_add(args[1], args[2])
      [] fn = "sub" -> operator_sub(args[1], args[2])
      [] fn = "mul" -> operator_mul(args[1], args[2])
      [] fn = "truediv" -> operator_truediv(args[1], args[2])
      [] fn = "pow" -> operator_pow(args[1], args[2])
      [] fn = "mod" -> operator_mod(args[1], args[2])
      [] fn = "floordiv" -> operator_floordiv(args[1], args[2])
      [] fn = "neg" -> operator_neg(args[1])

\* isinstance(node, ast.Num): a Constant whose value is an int, a float or a
\* complex number.
IsNum(node) == node.type = "Constant" /\ node.val.t \in {"int", "float", "complex"}

InModel(v) == Abs(v.re[1]) <= MaxMagnitude /\ Abs(v.im[1]) <= MaxMagnitude

\* The result of a walk: st, exc and val as for one operation, and invoked,
\* the functions of the table called so far, in call order.
Walk(r, invoked) == [st |-> r.st, exc |-> r.exc, val |-> r.val, invoked |-> invoked]

\* A walk that evaluates the right operand of a binary operation first.
RECURSIVE _eval_RightOperandFirst(_, _)
_eval_RightOperandFirst(node, table) ==
    CASE node.type = "Expression" -> _eval_RightOperandFirst(node.kids[1], table)
      [] IsNum(node) ->
           Walk(IF InModel(node.val) THEN Ok(node.val) ELSE Unmodelled, << >>)
      [] node.type = "BinOp" /\ node.op \in DOMAIN table ->
           LET r == _eval_RightOperandFirst(node.kids[2], table) IN
           IF r.st # "ok" THEN r
           ELSE LET l == _eval_RightOperandFirst(node.kids[1], table) IN
                IF l.st # "ok" THEN Walk(l, r.invoked \o l.invoked)
                ELSE Walk(Invoke(table[node.op], <<l.val, r.val>>),
                          r.invoked \o l.invoked \o <<table[node.op]>>)
      [] node.type = "UnaryOp" /\ node.op \in DOMAIN table ->
           LET x == _eval_RightOperandFirst(node.kids[1], table) IN
           IF x.st # "ok" THEN x
           ELSE Walk(Invoke(table[node.op], <<x.val>>),
                     x.invoked \o <<table[node.op]>>)
      [] OTHER -> Walk(Raise("ValueError"), << >>)

RECURSIVE _eval(_, _)
_eval(node, table) ==
    CASE node.type = "Expression" -> _eval(node.kids[1], table)
      [] IsNum(node) ->
           Walk(IF InModel(node.val) THEN Ok(node.val) ELSE Unmodelled, << >>)
      [] node.type = "BinOp" /\ node.op \in DOMAIN table ->
           LET l == _eval(node.kids[1], table) IN
           IF l.st # "ok" THEN l
           ELSE LET r == _eval(node.kids[2], table) IN
                IF r.st # "ok" THEN Walk(r, l.invoked \o r.invoked)
                ELSE Walk(Invoke(table[node.op], <<l.val, r.val>>),
                          l.invoked \o r.invoked \o <<table[node.op]>>)
      [] node.type = "UnaryOp" /\ node.op \in DOMAIN table ->
           LET x == _eval(node.kids[1], table) IN
           IF x.st # "ok" THEN x
           ELSE Walk(Invoke(table[node.op], <<x.val>>),
                     x.invoked \o <<table[node.op]>>)
      [] OTHER -> Walk(Raise("ValueError"), << >>)

\* A handler that catches the parser's and the walk's own errors only.
Caught_NoArithmeticError == {"SyntaxError", "ValueError", "TypeError"}

\* The exception classes the handler of safe_eval catches: except Exception.
Caught == {"SyntaxError", "ValueError", "ZeroDivisionError", "TypeError"}

\* A message without the input.
InvalidExpression_NoInput(s) == <<"Invalid expression">>

InvalidExpression(s) == <<"Invalid expression: ">> \o s

\* The body of the try block: parse, then walk the tree.
TryBody(p, table) ==
    IF p.ok THEN _eval(p.node, table) ELSE Walk(Raise("SyntaxError"), << >>)

\* The try statement around it: a value is returned; an exception the
\* handler catches is replaced by ValueError(f"Invalid expression: {expr}"),
\* chained from the exception caught.  kind is "return", "raise" or
\* "unmodelled".
TryExcept(s, r) ==
    CASE r.st = "ok" ->
           [kind |-> "return", val |-> r.val, exc |-> "", msg |-> << >>,
            cause |-> "", invoked |-> r.invoked]
      [] r.st = "raise" /\ r.exc \in Caught ->
           [kind |-> "raise", val |-> IntV(0), exc |-> "ValueError",
            msg |-> InvalidExpression(s), cause |-> r.exc, invoked |-> r.invoked]
      [] r.st = "raise" /\ r.exc \notin Caught ->
           [kind |-> "raise", val |-> IntV(0), exc |-> r.exc,
            msg |-> << >>, cause |-> "", invoked |-> r.invoked]
      [] OTHER ->
           [kind |-> "unmodelled", val |-> IntV(0), exc |-> "", msg |-> << >>,
            cause |-> "", invoked |-> r.invoked]

\* The outcome of safe_eval(s) with the table as it stands.
safe_eval(s, table) == TryExcept(s, TryBody(ast_parse(s), table))

\* ------------------------------------------------------------------------
\* The inputs of the evaluator
\* ------------------------------------------------------------------------

\* The characters of the exhaustively enumerated strings.
EnumChars == {"0", "2", "3", "+", "-", "*", "/", "%", "^", "(", ")", "x", "j", " ", "'"}

Strings == UNION {[1..k -> EnumChars] : k \in 0..MaxLen}

OperatorTexts ==
    {<<"+">>, <<"-">>, <<"*">>, <<"/">>, <<"%">>, <<"*", "*">>, <<"/", "/">>}

SignTexts == {<< >>, <<"-">>}

\* Every expression "a op b op c" over three small literals, each of the two
\* right operands with or without a sign.
Templates ==
    {s1 \o <<a>> \o o1 \o s2 \o <<b>> \o o2 \o s3 \o <<c>> :
        a \in {"2", "3"}, b \in {"0", "2", "3"}, c \in {"2", "3"},
        o1 \in OperatorTexts, o2 \in OperatorTexts,
        s1 \in SignTexts, s2 \in {<< >>}, s3 \in SignTexts}

Scenarios ==
    {<<"2", "+", "3", "*", "5">>,
     <<"2", "*", "*", "1", "0">>,
     <<"7", "/", "/", "2">>,
     <<"7", "%", "2">>,
     <<"1", "/", "0">>,
     <<"-", "(", "3", "+", "4", ")">>,
     <<"(", "1", "+", "2", ")", "*", "x">>,
     <<"x", "*", "(", "1", "+", "2", ")">>,
     <<"x", "(", "'", "x", "'", ")", "(", "2", ")">>,
     <<"(", "2", "-", "3", ")", "*", "(", "4", "+", "1", ")", "/", "8">>,
     <<"2", "*", "*", "3", "*", "*", "2">>,
     <<"(", "2", "*", "*", "3", ")", "*", "*", "2">>,
     <<"(", "-", "2", ")", "*", "*", "2">>,
     <<"-", "2", "*", "*", "-", "2">>,
     <<"2", "*", "+", "3">>,
     <<"+", "(", "3", "+", "4", ")">>,
     <<"8", "/", "(", "2", "-", "2", ")">>,
     <<"8", "%", "(", "3", "-", "3", ")", "+", "1">>,
     <<"1", "/", "0", "+", "x">>,
     <<"(", "2", "+", "3", ")", "^", "2">>,
     <<"2", " ", "+", " ", "3", " ">>,
     <<" ", "2", "+", "3">>,
     <<"(", "1", "+", "2", "j", ")", "*", "2", "j">>,
     <<"2", "j", "*", "2", "j">>,
     <<"1", "j", "%", "2">>,
     <<"0", "x", "1", "0", "+", "1">>,
     <<"1", "0", "0", "/", "8", "-", "1", "2">>,
     <<"(", "(", "2", ")", ")", "(", ")">>,
     <<"'", "'", "'", "x", "'", "'", "'", "+", "2">>}

Candidates == Strings \cup Templates \cup Scenarios

\* The inputs whose evaluation stays inside the model.
Inputs == {s \in Candidates : safe_eval(s, ALLOWED_OPERATORS).kind # "unmodelled"}

\* ------------------------------------------------------------------------
\* The evaluator as a state machine: one call of safe_eval
\* ------------------------------------------------------------------------

\* A call that, when it fails, deletes the entry of '/' from the table.
TableAfter_FailureDropsDiv(s, table) ==
    IF safe_eval(s, table).kind = "raise"
    THEN [op \in DOMAIN table \ {"Div"} |-> table[op]]
    ELSE table

\* A call of safe_eval assigns to nothing but its own locals: the table it
\* leaves behind is the table it found.
TableAfter(s, table) == table

VARIABLES
    expr,       \* the argument of the call of safe_eval under study
    pc,         \* "call" before that call, "done" after it, "idle" in the bot
    result,     \* the outcome of that call
    operators,  \* the module-level dict ALLOWED_OPERATORS
    updates     \* the text updates the bot received, oldest first

vars == <<expr, pc, result, operators, updates>>

NoResult == [kind |-> "none", val |-> IntV(0), exc |-> "", msg |-> << >>,
             cause |-> "", invoked |-> << >>]

Init ==
    /\ expr \in Inputs
    /\ pc = "call"
    /\ result = NoResult
    /\ operators = ALLOWED_OPERATORS
    /\ updates = << >>

SafeEval ==
    /\ pc = "call"
    /\ result' = safe_eval(expr, operators)
    /\ operators' = TableAfter(expr, operators)
    /\ pc' = "done"
    /\ UNCHANGED <<expr, updates>>

Next == SafeEval

Spec == Init /\ [][Next]_vars

\* ------------------------------------------------------------------------
\* Bot handlers and their registration in main
\* ------------------------------------------------------------------------

Lowercase ==
    {"a", "b", "c", "d", "e", "f", "g", "h", "i", "j", "k", "l", "m", "n",
     "o", "p", "q", "r", "s", "t", "u", "v", "w", "x", "y", "z"}

\* The characters of a bot command's name.
CommandChars == Lowercase \cup Digits \cup {"_"}

RECURSIVE CommandEnd(_, _)
CommandEnd(text, i) ==
    IF i <= Len(text) /\ text[i] \in CommandChars THEN CommandEnd(text, i + 1) ELSE i

\* filters.COMMAND: the message starts with a bot command, a slash directly
\* followed by a command name.
IsCommand(text) == Len(text) >= 2 /\ text[1] = "/" /\ text[2] \in CommandChars

\* The name of the command a command message starts with.
CommandName(text) == SubSeq(text, 2, CommandEnd(text, 2) - 1)

\* A registration of calculate under filters.TEXT alone.
Dispatch_CommandsEvaluated(text) ==
    IF IsCommand(text) /\ CommandName(text) = <<"s", "t", "a", "r", "t">> THEN "start"
    ELSE "calculate"

\* The handlers in registration order; the first whose filter accepts the
\* update handles it: CommandHandler("start", start), then
\* MessageHandler(filters.TEXT & ~filters.COMMAND, calculate).
Dispatch(text) ==
    IF IsCommand(text) /\ CommandName(text) = <<"s", "t", "a", "r", "t">> THEN "start"
    ELSE IF ~IsCommand(text) THEN "calculate"
    ELSE "none"

\* str.strip() on the characters of the model: blanks off both ends.
RECURSIVE Strip(_)
Strip(s) ==
    IF s = << >> THEN s
    ELSE IF s[1] = " " THEN Strip(Tail(s))
    ELSE IF s[Len(s)] = " " THEN Strip(SubSeq(s, 1, Len(s) - 1))
    ELSE s

DigitChar(d) ==
    CASE d = 0 -> "0" [] d = 1 -> "1" [] d = 2 -> "2" [] d = 3 -> "3"
      [] d = 4 -> "4" [] d = 5 -> "5" [] d = 6 -> "6" [] d = 7 -> "7"
      [] d = 8 -> "8" [] d = 9 -> "9"

RECURSIVE NatDigits(_)
NatDigits(n) ==
    IF n < 10 THEN <<DigitChar(n)>>
    ELSE NatDigits(n \div 10) \o <<DigitChar(n % 10)>>

\* The decimal digits of num/den, 0 <= num < den, den a power of two.
RECURSIVE FractionDigits(_, _)
FractionDigits(num, den) ==
    IF num = 0 THEN << >>
    ELSE <<DigitChar((num * 10) \div den)>> \o FractionDigits((num * 10) % den, den)

\* str(v) for an int, and repr of a float that is not zero (the floats of
\* the model lie between 1e-4 and 1e16 in magnitude, where repr writes no
\* exponent).
PyStr(v) ==
    LET n == Abs(v.re[1])
        d == v.re[2]
        sign == IF v.re[1] < 0 THEN <<"-">> ELSE << >>
        fraction == FractionDigits(n % d, d)
    IN IF v.t = "int" THEN sign \o NatDigits(n)
       ELSE sign \o NatDigits(n \div d) \o <<".">>
                 \o (IF fraction = << >> THEN <<"0">> ELSE fraction)

\* The two fixed replies, in ASCII (the source's emoji and line break left
\* out).
WELCOME == <<"Hi! I am a Math Bot. Send me any math expression (e.g., 2+3*5) and I'll solve it.">>

INVALID_REPLY == <<"Invalid expression. Try again!">>

ResultReply(v) == <<"Result: ">> \o PyStr(v)

\* One call of update.message.reply_text: the text, and whether the call
\* returned (delivered) or raised a telegram error.
ReplyCall(text, delivered) == [text |-> text, delivered |-> delivered]

\* The handler start: one reply_text call; if it raises, the error leaves
\* the handler.
start(sendOk) ==
    [calls |-> <<ReplyCall(WELCOME, sendOk)>>, escaped |-> ~sendOk,
     evaluation |-> NoResult]

\* The handler calculate after the evaluation r.  The try block holds the
\* evaluation and the statement that formats the result and sends it; sendOk
\* tells whether that statement completed.  The except clause sends the
\* invalid-expression reply (fallbackOk: that call returned), and an error
\* of that call leaves the handler.
Reply(r, sendOk, fallbackOk) ==
    IF r.kind = "return"
    THEN IF sendOk
         THEN [calls |-> <<ReplyCall(ResultReply(r.val), TRUE)>>,
               escaped |-> FALSE, evaluation |-> r]
         ELSE [calls |-> <<ReplyCall(ResultReply(r.val), FALSE),
                           ReplyCall(INVALID_REPLY, fallbackOk)>>,
               escaped |-> ~fallbackOk, evaluation |-> r]
    ELSE [calls |-> <<ReplyCall(INVALID_REPLY, fallbackOk)>>,
          escaped |-> ~fallbackOk, evaluation |-> r]

calculate(text, table, sendOk, fallbackOk) ==
    Reply(safe_eval(Strip(text), table), sendOk, fallbackOk)

\* The message texts the bot model receives.
MessageTexts ==
    {<<"/", "s", "t", "a", "r", "t">>,
     <<"/", "s", "t", "a", "r", "t", " ", "2", "+", "3">>,
     <<"/", "h", "e", "l", "p">>,
     <<"/", "2", "+", "3">>,
     <<"/", " ", "2">>,
     <<"2", "+", "3", "*", "5">>,
     <<" ", "7", "/", "/", "2", " ">>,
     <<"-", "(", "3", "+", "4", ")">>,
     <<"7", "/", "2">>,
     <<"1", "/", "0">>,
     <<"(", "1", "+", "2", ")", "*", "x">>,
     <<"x">>}

\* An evaluation calculate can answer inside the model: it is modelled and
\* a returned value is one PyStr writes.
CanFormat(r) ==
    \/ r.kind = "raise"
    \/ r.kind = "return" /\ (r.val.t = "int" \/ (r.val.t = "float" /\ ~IsZero(r.val)))

Formattable(text) == CanFormat(safe_eval(Strip(text), ALLOWED_OPERATORS))

Messages == {m \in MessageTexts : Dispatch(m) # "calculate" \/ Formattable(m)}

Update(text) ==
    [text |-> text, state |-> "queued", handler |-> "", calls |-> << >>,
     escaped |-> FALSE, evaluation |-> NoResult]

Handled(u, handler, run) ==
    [u EXCEPT !.state = "handled", !.handler = handler, !.calls = run.calls,
              !.escaped = run.escaped, !.evaluation = run.evaluation]

Queued == {i \in 1..Len(updates) : updates[i].state = "queued"}

\* Updates are processed one at a time, in arrival order.
IsHead(i) == i \in Queued /\ \A j \in Queued : i <= j

BotInit ==
    /\ expr = << >>
    /\ pc = "idle"
    /\ result = NoResult
    /\ operators = ALLOWED_OPERATORS
    /\ updates = << >>

\* The polling loop fetches one more text message.
Receive ==
    /\ Len(updates) < MaxUpdates
    /\ \E text \in Messages : updates' = Append(updates, Update(text))
    /\ UNCHANGED <<expr, pc, result, operators>>

Start ==
    \E i \in 1..Len(updates), sendOk \in BOOLEAN :
        /\ IsHead(i)
        /\ Dispatch(updates[i].text) = "start"
        /\ updates' = [updates EXCEPT ![i] = Handled(@, "start", start(sendOk))]
        /\ UNCHANGED <<expr, pc, result, operators>>

Calculate ==
    \E i \in 1..Len(updates), sendOk \in BOOLEAN, fallbackOk \in BOOLEAN :
        /\ IsHead(i)
        /\ Dispatch(updates[i].text) = "calculate"
        /\ updates' = [updates EXCEPT ![i] =
               Handled(@, "calculate",
                       calculate(updates[i].text, operators, sendOk, fallbackOk))]
        /\ operators' = TableAfter(Strip(updates[i].text), operators)
        /\ UNCHANGED <<expr, pc, result>>

\* No registered handler accepts the update: it is dropped unanswered.
Unhandled ==
    \E i \in 1..Len(updates) :
        /\ IsHead(i)
        /\ Dispatch(updates[i].text) = "none"
        /\ updates' = [updates EXCEPT ![i] =
               Handled(@, "none", [calls |-> << >>, escaped |-> FALSE,
                                   evaluation |-> NoResult])]
        /\ UNCHANGED <<expr, pc, result, operators>>

BotNext == Receive \/ Start \/ Calculate \/ Unhandled

BotSpec == BotInit /\ [][BotNext]_vars

\* ------------------------------------------------------------------------
\* Reference notions the properties are stated with.  The reference tree
\* (RefTree) and the reference value (MathValue) use neither the grammar
\* model nor _eval nor the operator table.
\* ------------------------------------------------------------------------

Tokens == Lex(expr, 1)
ParsedOk == ast_parse(expr).ok
\* The body of the Expression node ast.parse returned.
Tree == ast_parse(expr).node.kids[1]

SevenOperators == {"Add", "Sub", "Mult", "Div", "Mod", "Pow", "FloorDiv"}

TableFunctions == {"add", "sub", "mul", "truediv", "pow", "neg", "mod", "floordiv"}

\* The three shapes of the specification: a numeric literal, a binary
\* operation with one of the seven operators, a unary minus.
AllowedShape(node) ==
    \/ node.type = "Constant" /\ node.val.t \in {"int", "float", "complex"}
    \/ node.type = "BinOp" /\ node.op \in SevenOperators
    \/ node.type = "UnaryOp" /\ node.op = "USub"

RECURSIVE HasDisallowed(_)
HasDisallowed(node) ==
    \/ ~AllowedShape(node)
    \/ \E i \in 1..Len(node.kids) : HasDisallowed(node.kids[i])

\* A tree of literals of the given types, the seven binary operators and the
\* signs in signs, and nothing else.
RECURSIVE ArithTree(_, _, _)
ArithTree(node, signs, literals) ==
    /\ \/ node.type = "Constant" /\ node.val.t \in literals
       \/ node.type = "BinOp" /\ node.op \in SevenOperators
       \/ node.type = "UnaryOp" /\ node.op \in signs
    /\ \A i \in 1..Len(node.kids) : ArithTree(node.kids[i], signs, literals)

\* --- the tree of an arithmetic expression, by splitting the token sequence
\* at its loosest binding operator ---

DepthAt(t, lo, i) ==
    Cardinality({j \in lo..(i - 1) : t[j].k = "("})
        - Cardinality({j \in lo..(i - 1) : t[j].k = ")"})

\* A '+' or '-' is a binary operator when an operand ends just before it.
EndsOperand(t, lo, i) == i > lo /\ t[i - 1].k \in {"NUM", "IMAG", ")"}

TopLevel(t, lo, hi, ks) ==
    {i \in lo..hi : t[i].k \in ks /\ DepthAt(t, lo, i) = 0 /\ EndsOperand(t, lo, i)}

SetMax(S) == CHOOSE m \in S : \A n \in S : n <= m
SetMin(S) == CHOOSE m \in S : \A n \in S : m <= n

\* The parenthesis at lo closes at hi and not before.
Wrapped(t, lo, hi) ==
    /\ lo < hi /\ t[lo].k = "(" /\ t[hi].k = ")"
    /\ \A i \in (lo + 1)..hi : DepthAt(t, lo, i) > 0

NoTree == Other("None", << >>)

\* unaryOverPower = FALSE: a sign binds looser than a power to its right
\* (-a**b is -(a**b)).  TRUE: a sign binds tighter than any power.
RECURSIVE RefTree(_, _, _, _)
RefTree(t, lo, hi, unaryOverPower) ==
    LET sums == TopLevel(t, lo, hi, {"+", "-"})
        terms == TopLevel(t, lo, hi, {"*", "/", "//", "%"})
        powers == TopLevel(t, lo, hi, {"**"})
        Split(i) == BinOp(BinOpName(t[i].k),
                          RefTree(t, lo, i - 1, unaryOverPower),
                          RefTree(t, i + 1, hi, unaryOverPower))
        Signed == UnaryOp(UnaryOpName(t[lo].k), RefTree(t, lo + 1, hi, unaryOverPower))
        signAt == t[lo].k \in {"+", "-"}
    IN
    IF lo > hi THEN NoTree
    ELSE IF sums # {} THEN Split(SetMax(sums))
    ELSE IF terms # {} THEN Split(SetMax(terms))
    ELSE IF signAt /\ ~unaryOverPower THEN Signed
    ELSE IF powers # {} THEN Split(SetMin(powers))
    ELSE IF signAt THEN Signed
    ELSE IF Wrapped(t, lo, hi) THEN RefTree(t, lo + 1, hi - 1, unaryOverPower)
    ELSE IF lo = hi /\ t[lo].k = "NUM" THEN Constant(IntV(t[lo].v))
    ELSE IF lo = hi /\ t[lo].k = "IMAG" THEN Constant(ImagV(t[lo].v))
    ELSE NoTree

\* The tree under Python's rule, and under "unary negation highest".
PythonTree == RefTree(Tokens, 1, Len(Tokens), FALSE)
UnaryFirstTree == RefTree(Tokens, 1, Len(Tokens), TRUE)

\* The string reads as an arithmetic expression over literals of the given
\* types, the seven operators, the given signs and parentheses; tree is its
\* tree under the precedence rule in question.
Arithmetic(tree, signs, literals) ==
    expr # << >> /\ expr[1] # " " /\ ArithTree(tree, signs, literals)

Signs == {"USub", "UAdd"}
Numeric == {"int", "complex"}

\* --- the value of an arithmetic tree in exact rational arithmetic ---

Undefined == <<1, 0>>

RECURSIVE QPow(_, _)
QPow(a, n) == IF n = 0 THEN <<1, 1>> ELSE QMul(a, QPow(a, n - 1))

RECURSIVE MathValue(_)
MathValue(node) ==
    IF node.type = "Constant" THEN node.val.re
    ELSE IF node.type = "UnaryOp"
    THEN LET x == MathValue(node.kids[1])
         IN IF node.op = "USub" /\ x # Undefined THEN QNeg(x) ELSE x
    ELSE LET a == MathValue(node.kids[1])
             b == MathValue(node.kids[2])
         IN
         IF IsBad(a) \/ IsBad(b) THEN IF a = Undefined \/ b = Undefined THEN Undefined ELSE Bad
         ELSE CASE node.op = "Add" -> QAdd(a, b)
                [] node.op = "Sub" -> QSub(a, b)
                [] node.op = "Mult" -> QMul(a, b)
                [] node.op = "Div" -> IF QZero(b) THEN Undefined ELSE QDiv(a, b)
                [] node.op = "FloorDiv" ->
                     IF QZero(b) THEN Undefined ELSE QFloor(QDiv(a, b))
                [] node.op = "Mod" ->
                     IF QZero(b) THEN Undefined
                     ELSE QSub(a, QMul(b, QFloor(QDiv(a, b))))
                [] node.op = "Pow" ->
                     IF ~QIsInt(b) THEN Bad
                     ELSE IF b[1] >= 0 THEN QPow(a, b[1])
                     ELSE IF QZero(a) THEN Undefined
                     ELSE QDiv(<<1, 1>>, QPow(a, -b[1]))

\* The value returned, as a fraction.
ReturnedValue == result.val.re

Returned == pc = "done" /\ result.kind = "return"

\* safe_eval failed with its one error: ValueError carrying the input.
Rejected ==
    /\ pc = "done"
    /\ result.kind = "raise"
    /\ result.exc = "ValueError"
    /\ result.msg = <<"Invalid expression: ">> \o expr

Defined(q) == ~IsBad(q)

\* --- the calls a rejected walk may have made ---

OperatorFunction(op) ==
    CASE op = "Add" -> "add" [] op = "Sub" -> "sub" [] op = "Mult" -> "mul"
      [] op = "Div" -> "truediv" [] op = "Pow" -> "pow" [] op = "Mod" -> "mod"
      [] op = "FloorDiv" -> "floordiv" [] op = "USub" -> "neg"

\* The operators of a tree without disallowed node, operands first.
RECURSIVE CleanCalls(_)
CleanCalls(node) ==
    IF node.type = "Constant" THEN << >>
    ELSE IF node.type = "UnaryOp"
    THEN CleanCalls(node.kids[1]) \o <<OperatorFunction(node.op)>>
    ELSE CleanCalls(node.kids[1]) \o CleanCalls(node.kids[2])
             \o <<OperatorFunction(node.op)>>

\* For a tree with a disallowed node: the operators of the sub-expressions
\* that lie wholly to the left of the first disallowed node.
RECURSIVE CallsBeforeRejection(_)
CallsBeforeRejection(node) ==
    IF ~AllowedShape(node) \/ node.type = "Constant" THEN << >>
    ELSE IF node.type = "UnaryOp" THEN CallsBeforeRejection(node.kids[1])
    ELSE IF HasDisallowed(node.kids[1]) THEN CallsBeforeRejection(node.kids[1])
    ELSE CleanCalls(node.kids[1]) \o CallsBeforeRejection(node.kids[2])

IsPrefix(a, b) == Len(a) <= Len(b) /\ a = SubSeq(b, 1, Len(a))

\* Some /, % or // of the tree has a right operand that evaluates to zero.
RECURSIVE DividesByZero(_)
DividesByZero(node) ==
    \/ /\ node.type = "BinOp"
       /\ node.op \in {"Div", "Mod", "FloorDiv"}
       /\ LET r == _eval(node.kids[2], ALLOWED_OPERATORS)
          IN r.st = "ok" /\ IsZero(r.val)
    \/ \E i \in 1..Len(node.kids) : DividesByZero(node.kids[i])

\* ------------------------------------------------------------------------
\* Properties of the evaluator (specification Spec)
\* ------------------------------------------------------------------------

\* C1: an input whose parsed tree holds, at any depth, a node outside the
\* three allowed shapes makes safe_eval fail with its ValueError and return
\* nothing; and every function a call invokes is one of the eight functions
\* of the ALLOWED_OPERATORS table.
C1_DisallowedNodeRejected ==
    pc = "done" =>
        /\ (ParsedOk /\ HasDisallowed(Tree)) => Rejected
        /\ \A i \in 1..Len(result.invoked) : result.invoked[i] \in TableFunctions

\* C1 witness: "(1+2)*x" has been evaluated and was rejected.
C1_Witness ==
    /\ expr = <<"(", "1", "+", "2", ")", "*", "x">>
    /\ HasDisallowed(Tree)
    /\ Rejected

\* C2 as stated: every well-formed expression over real literals, the seven
\* operators (used as binary operators or as signs) and parentheses whose
\* value is defined evaluates to that value.
C2_Original ==
    (pc = "done" /\ Arithmetic(PythonTree, Signs, {"int"})
        /\ Defined(MathValue(PythonTree)))
    => (Returned /\ ReturnedValue = MathValue(PythonTree))

\* C2 amended: every well-formed expression over real literals, the seven
\* binary operators, unary minus and parentheses whose value is defined
\* evaluates to that value, read with a power binding tighter than a minus
\* sign to its left; the result is a real number.
C2_ValueCorrect ==
    (pc = "done" /\ Arithmetic(PythonTree, {"USub"}, {"int"})
        /\ Defined(MathValue(PythonTree)))
    => (Returned /\ ReturnedValue = MathValue(PythonTree) /\ QZero(result.val.im))

\* C2 witness: "2+3*5" has returned 17.
C2_Witness ==
    /\ expr = <<"2", "+", "3", "*", "5">>
    /\ Returned
    /\ result.val = IntV(17)
    /\ MathValue(PythonTree) = <<17, 1>>

\* C3 as stated: the tree is the one in which a sign binds tighter than any
\* power operator next to it.
C3_Original ==
    (pc = "done" /\ Arithmetic(UnaryFirstTree, Signs, Numeric))
    => (ParsedOk /\ Tree = UnaryFirstTree)

\* C3 amended: the tree is built with add/subtract loosest and
\* left-associative, then multiply/divide/modulo/integer-divide
\* left-associative, then a sign, then power, right-associative, with
\* parentheses overriding: a sign binds looser than a power to its right
\* and tighter than a power to its left (the sign of an exponent).  Exactly
\* the strings that read as such an expression parse to an arithmetic tree.
C3_TreePrecedence ==
    pc = "done" =>
        /\ Arithmetic(PythonTree, Signs, Numeric) => (ParsedOk /\ Tree = PythonTree)
        /\ (ParsedOk /\ ArithTree(Tree, Signs, Numeric))
              => Arithmetic(PythonTree, Signs, Numeric)

\* C3 witness: "-2**-2" was parsed as -(2 ** (-2)).
C3_Witness ==
    /\ pc = "done"
    /\ expr = <<"-", "2", "*", "*", "-", "2">>
    /\ Tree = UnaryOp("USub", BinOp("Pow", Constant(IntV(2)),
                                    UnaryOp("USub", Constant(IntV(2)))))
    /\ Tree = PythonTree

\* C4: in an expression of allowed nodes only, a /, % or // whose right
\* operand evaluates to zero, at any depth, makes safe_eval fail with its
\* ValueError.
C4_ZeroDivisorRejected ==
    (pc = "done" /\ ParsedOk /\ ~HasDisallowed(Tree) /\ DividesByZero(Tree))
    => Rejected

\* C4 witness: "8%(3-3)+1" was rejected because of a ZeroDivisionError.
C4_Witness ==
    /\ expr = <<"8", "%", "(", "3", "-", "3", ")", "+", "1">>
    /\ DividesByZero(Tree)
    /\ Rejected
    /\ result.cause = "ZeroDivisionError"

C8_Original ==
    (pc = "done" /\ ParsedOk /\ HasDisallowed(Tree)) => result.invoked = << >>

\* C8 amended: when the tree holds a disallowed node the expression is
\* rejected and returns nothing; the functions called before the rejection
\* are operators of sub-expressions that hold no disallowed node and lie to
\* the left of the first disallowed node, in evaluation order.
C8_RejectedAfterLeftOperands ==
    (pc = "done" /\ ParsedOk /\ HasDisallowed(Tree))
    => (Rejected /\ IsPrefix(result.invoked, CallsBeforeRejection(Tree)))

\* C8 witness: "(1+2)*x" was rejected after the addition was performed.
C8_Witness ==
    /\ expr = <<"(", "1", "+", "2", ")", "*", "x">>
    /\ Rejected
    /\ result.invoked = <<"add">>

\* C10: every value safe_eval returns is an int or a float.
C10_OnlyRealValues == Returned => result.val.t \in {"int", "float"}

\* ------------------------------------------------------------------------
\* Properties of the bot (specification BotSpec)
\* ------------------------------------------------------------------------

HandledBy(handler) ==
    {i \in 1..Len(updates) :
        updates[i].state = "handled" /\ updates[i].handler = handler}

HandledUpdates == {i \in 1..Len(updates) : updates[i].state = "handled"}

RepliesOf(u) == {u.calls[k].text : k \in 1..Len(u.calls)}

Delivered(u) == {u.calls[k].text : k \in {j \in 1..Len(u.calls) : u.calls[j].delivered}}

\* The texts of MessageTexts that are the /start command, and those that are
\* another command.
StartTexts ==
    {<<"/", "s", "t", "a", "r", "t">>,
     <<"/", "s", "t", "a", "r", "t", " ", "2", "+", "3">>}

OtherCommandTexts == {<<"/", "h", "e", "l", "p">>, <<"/", "2", "+", "3">>}

\* C6: every message calculate handled got exactly one reply, "Result: "
\* and the value when safe_eval returned one, the invalid-expression string
\* when safe_eval failed; the invalid-expression reply is sent only after a
\* failed evaluation, and no error left the handler.
C6_OneMatchingReply ==
    \A i \in HandledBy("calculate") :
        LET u == updates[i] IN
        /\ Len(u.calls) = 1
        /\ u.evaluation.kind = "return"
              => u.calls[1].text = <<"Result: ">> \o PyStr(u.evaluation.val)
        /\ u.evaluation.kind = "raise" => u.calls[1].text = INVALID_REPLY
        /\ INVALID_REPLY \in RepliesOf(u) => u.evaluation.kind = "raise"
        /\ ~u.escaped

\* C7 as stated: /start is routed to the welcome reply and every other text
\* to the evaluator, so that a reply is made to every text message.
C7_Original ==
    \A i \in HandledUpdates :
        LET u == updates[i] IN
        /\ u.text \in StartTexts => (u.handler = "start" /\ RepliesOf(u) = {WELCOME})
        /\ u.text \notin StartTexts => u.handler = "calculate"
        /\ u.calls # << >>

\* C7 amended: a /start command is routed to the welcome reply; a text that
\* does not start with a command (a slash directly followed by a command
\* name) is routed to the evaluator, which is run on the stripped text; a
\* command other than /start is routed to no handler and gets no reply.  A
\* routed message receives a reply unless an error left its handler.
C7_Routing ==
    \A i \in HandledUpdates :
        LET u == updates[i] IN
        /\ u.text \in StartTexts => (u.handler = "start" /\ RepliesOf(u) = {WELCOME})
        /\ u.text \in OtherCommandTexts => (u.handler = "none" /\ u.calls = << >>)
        /\ u.text \notin (StartTexts \cup OtherCommandTexts)
              => /\ u.handler = "calculate"
                 /\ u.evaluation.kind \in {"return", "raise"}
                 /\ u.calls # << >>
        /\ (u.handler # "none" /\ ~u.escaped) => Delivered(u) # {}

\* C7 witness: /start was answered with the welcome text, then /help was
\* dropped unanswered.
C7_Witness ==
    /\ Len(updates) = 2
    /\ HandledUpdates = {1, 2}
    /\ updates[1].text = <<"/", "s", "t", "a", "r", "t">>
    /\ Delivered(updates[1]) = {WELCOME}
    /\ updates[2].text = <<"/", "h", "e", "l", "p">>
    /\ updates[2].handler = "none"

====
